---- MODULE Spec2Model ----
(***************************************************************************)
(* Icon generation scripts (create_*_icon.py): the rounded-rectangle        *)
(* composer, font resolution, and the multi-size export into assets/.       *)
(*                                                                          *)
(* Three specifications share the module's variables:                       *)
(*   SpecRR    one call of rounded_rectangle, draw call by draw call, on a  *)
(*             pixel grid, for every bounded box and radius;                *)
(*   SpecRun   one run of any script, under every state of the font files   *)
(*             it probes and on a file system that may refuse any write;    *)
(*   Spec      script runs, one after the other in any order, against one   *)
(*             assets/ directory on a file system that accepts writes.      *)
(***************************************************************************)
EXTENDS Integers, Sequences, FiniteSets, TLC

VARIABLES
    xy,          \* rounded_rectangle: the box (x0, y0, x1, y1)
    radius,      \* rounded_rectangle: the corner radius
    painted,     \* the pixels <<x, y>> filled so far by the call
    rstep,       \* draw calls of rounded_rectangle already made (0..6)
    files,       \* the font files that exist (os.path.exists)
    ttf,         \* the <<path, size>> that ImageFont.truetype can load
    assets,      \* whether the directory assets/ exists
    fs,          \* assets/: file name -> image (NoImage: no such file)
    script,      \* the script of the current (or last) run
    status,      \* "idle", "running", "done" or "failed" (unhandled exception)
    pc,          \* index of the next statement of the script
    img,         \* the script's canvas
    resized,     \* the script's last resampled image
    font,        \* the script's font variables
    font_small,
    title_font,
    fidx,        \* font_paths loop: index of the next path (0: not in the loop)
    written,     \* history: the files this run has saved, in order
    startFs,     \* history: assets/ as this run found it
    prev,        \* history: the run before this one, [script, status]
    disk         \* "ok", or "unreliable": the file system may refuse a write

rrvars == <<xy, radius, painted, rstep>>
envvars == <<files, ttf, disk>>
fontvars == <<font, font_small, title_font, fidx>>
runvars == <<assets, fs, script, status, pc, img, resized, written, startFs, prev>>
vars == <<rrvars, envvars, fontvars, runvars>>

(***************************************************************************)
(* Bounds                                                                   *)
(***************************************************************************)
MaxSide == 13       \* largest x1 - x0 and y1 - y0 of a box
MaxOrigin == 1      \* largest x0 and y0 of a box
MaxInstalled == 1   \* Spec: how many of the probed font files exist at most

Abs(n) == IF n < 0 THEN -n ELSE n
Min(a, b) == IF a < b THEN a ELSE b

(***************************************************************************)
(* ImageDraw.rectangle([(a, b), (c, d)], fill): both corners inclusive.     *)
(***************************************************************************)
RectangleHalfOpen(a, b, c, d) == (a..(c - 1)) \X (b..(d - 1))

Rectangle(a, b, c, d) == (a..c) \X (b..d)

(***************************************************************************)
(* ImageDraw.pieslice(bbox, start, end, fill).  The ellipse of the box is   *)
(* traced in doubled coordinates relative to its centre (X = 2*dx, so that  *)
(* an odd diameter has a half-pixel centre): a quarter from (a, b % 2) to   *)
(* (a % 2, b), each step going up, diagonally or left to the point whose    *)
(* deviation |a^2 Y^2 + b^2 X^2 - a^2 b^2| is least.  A row is filled up to *)
(* the first (outermost) point traced on it.                                *)
(***************************************************************************)
QuarterDelta(a, b, x, y) == Abs(a * a * y * y + b * b * x * x - a * a * b * b)

QuarterNext(a, b, cx, cy) ==
    LET up    == <<cx, cy + 2>>
        dUp   == QuarterDelta(a, b, cx, cy + 2)
        dDiag == QuarterDelta(a, b, cx - 2, cy + 2)
        dLeft == QuarterDelta(a, b, cx - 2, cy)
        first == IF cx > 1 /\ dUp > dDiag THEN <<cx - 2, cy + 2>> ELSE up
        dFst  == IF cx > 1 /\ dUp > dDiag THEN dDiag ELSE dUp
    IN  IF cx > 1 /\ dFst > dLeft THEN <<cx - 2, cy>> ELSE first

RECURSIVE QuarterPoints(_, _, _, _)
QuarterPoints(a, b, cx, cy) ==
    IF cx = a % 2 /\ cy = b
    THEN << <<cx, cy>> >>
    ELSE LET n == QuarterNext(a, b, cx, cy)
         IN  << <<cx, cy>> >> \o QuarterPoints(a, b, n[1], n[2])

\* The extent of each row Y >= 0 of the filled ellipse: the largest X traced on
\* it (-1: no point).
RowExtents(a, b) ==
    LET pts == QuarterPoints(a, b, a, b % 2)
    IN  [Y \in 0..b |->
           LET xs == { pts[i][1] : i \in { j \in 1..Len(pts) : pts[j][2] = Y } }
           IN  IF xs = {} THEN -1 ELSE CHOOSE m \in xs : \A x \in xs : x <= m]

\* The filled ellipse of the box (x0, y0)-(x1, y1), as pixels.
Ellipse(x0, y0, x1, y1) ==
    LET a == x1 - x0
        b == y1 - y0
    IN  IF a < 0 \/ b < 0 THEN {}
        ELSE LET ext == RowExtents(a, b)
             IN  { p \in (x0..x1) \X (y0..y1) :
                     Abs(2 * (p[1] - x0) - a) <= ext[Abs(2 * (p[2] - y0) - b)] }

\* The 90-degree sector from `start` (0, 90, 180 or 270 degrees, clockwise from
\* three o'clock, y growing downwards): the ellipse cut by the two half-planes
\* through its centre.
Pieslice(x0, y0, x1, y1, start) ==
    LET a == x1 - x0
        b == y1 - y0
    IN  { p \in Ellipse(x0, y0, x1, y1) :
            LET X == 2 * (p[1] - x0) - a
                Y == 2 * (p[2] - y0) - b
            IN  /\ (start \in {0, 270}) => X >= 0
                /\ (start \in {90, 180}) => X <= 0
                /\ (start \in {0, 90}) => Y >= 0
                /\ (start \in {180, 270}) => Y <= 0 }

(***************************************************************************)
(* rounded_rectangle(draw, xy, radius, fill): its six draw calls in order.  *)
(***************************************************************************)
RoundedRectangleCallRadiusBox(box, r, k) ==
    LET x0 == box[1]
        y0 == box[2]
        x1 == box[3]
        y1 == box[4]
    IN  CASE k = 1 -> Rectangle(x0, y0 + r, x1, y1 - r)
          [] k = 2 -> Rectangle(x0 + r, y0, x1 - r, y1)
          [] k = 3 -> Pieslice(x0, y0, x0 + r, y0 + r, 180)
          [] k = 4 -> Pieslice(x1 - r, y0, x1, y0 + r, 270)
          [] k = 5 -> Pieslice(x0, y1 - r, x0 + r, y1, 90)
          [] k = 6 -> Pieslice(x1 - r, y1 - r, x1, y1, 0)

RoundedRectangleCall(box, r, k) ==
    LET x0 == box[1]
        y0 == box[2]
        x1 == box[3]
        y1 == box[4]
    IN  CASE k = 1 -> Rectangle(x0, y0 + r, x1, y1 - r)
          [] k = 2 -> Rectangle(x0 + r, y0, x1 - r, y1)
          [] k = 3 -> Pieslice(x0, y0, x0 + 2 * r, y0 + 2 * r, 180)
          [] k = 4 -> Pieslice(x1 - 2 * r, y0, x1, y0 + 2 * r, 270)
          [] k = 5 -> Pieslice(x0, y1 - 2 * r, x0 + 2 * r, y1, 90)
          [] k = 6 -> Pieslice(x1 - 2 * r, y1 - 2 * r, x1, y1, 0)

\* Valid inputs: x0 <= x1, y0 <= y1, 0 <= radius <= min(width, height) / 2.
Boxes ==
    { <<x0, y0, x0 + w, y0 + h>> :
        x0 \in 0..MaxOrigin, y0 \in 0..MaxOrigin, w \in 0..MaxSide, h \in 0..MaxSide }

ValidRadius(box, r) == 2 * r <= Min(box[3] - box[1], box[4] - box[2])

(***************************************************************************)
(* Fonts.  A font value is [path, size]; font = None and                    *)
(* ImageFont.load_default() are the two values with size 0.                 *)
(***************************************************************************)
Monaco == "/System/Library/Fonts/Monaco.dfont"
Menlo == "/System/Library/Fonts/Menlo.ttc"
Courier == "/System/Library/Fonts/Courier.dfont"
CourierNew == "/Library/Fonts/Courier New.ttf"
Helvetica == "/System/Library/Fonts/Helvetica.ttc"

FontPaths == {Monaco, Menlo, Courier, CourierNew, Helvetica}

None == [path |-> "None", size |-> 0]
DefaultFont == [path |-> "load_default", size |-> 0]

\* ImageFont.truetype(path, size) returns the font; it raises when the file is
\* missing or cannot be loaded at that size.
TrueTypeLoadsAnyFile(path, size) == path \in files

TrueTypeLoads(path, size) == path \in files /\ <<path, size>> \in ttf

TrueType(path, size) == [path |-> path, size |-> size]

\* draw.text(..., font=f): font=None draws with the default font.
Face(f) == IF f = None THEN DefaultFont ELSE f

(***************************************************************************)
(* Images.  lineage lists the edge lengths an image went through: the       *)
(* canvas it was drawn on, then one entry per resampling.  ops counts the   *)
(* draw calls on the canvas and faces lists the fonts of its text calls.    *)
(***************************************************************************)
NoImage == [w |-> 0, h |-> 0, art |-> "none", ops |-> 0, faces |-> <<>>, lineage |-> <<>>]

\* Image.new('RGBA', (size, size), colour)
NewCanvasOnOldIcon(s, size) ==
    IF fs[[base |-> "icon", suffix |-> 0]] = NoImage
    THEN [w |-> size, h |-> size, art |-> s, ops |-> 0, faces |-> <<>>, lineage |-> <<size>>]
    ELSE [fs[[base |-> "icon", suffix |-> 0]] EXCEPT !.art = s]

NewCanvas(s, size) ==
    [w |-> size, h |-> size, art |-> s, ops |-> 0, faces |-> <<>>, lineage |-> <<size>>]

\* im.resize((px, px), Image.Resampling.LANCZOS)
ResizeWidthOnly(im, px) == [im EXCEPT !.w = px, !.lineage = Append(@, px)]

Resize(im, px) == [im EXCEPT !.w = px, !.h = px, !.lineage = Append(@, px)]

(***************************************************************************)
(* File names under assets/: <base>_<suffix>.png, suffix 0 for <base>.png.  *)
(***************************************************************************)
FileName(base, suffix) == [base |-> base, suffix |-> suffix]
IconPng == FileName("icon", 0)

(***************************************************************************)
(* The scripts, statement by statement.                                     *)
(***************************************************************************)
Final == "create_final_icon.py"
Full == "create_full_icon.py"
Icon == "create_icon.py"
Modern == "create_modern_icon.py"
Overview == "create_overview_icon.py"
Terminal == "create_terminal_icon.py"

Scripts == {Final, Full, Icon, Modern, Overview, Terminal}

New(size) == [op |-> "new", size |-> size]
Shapes(n) == [op |-> "shapes", n |-> n]
Text(var, n) == [op |-> "text", var |-> var, n |-> n]
FontList(paths, sizes) == [op |-> "fontlist", paths |-> paths, sizes |-> sizes]
FontTry(var, path, size, fallback) ==
    [op |-> "fonttry", var |-> var, path |-> path, size |-> size, fallback |-> fallback]
MakeDirs == [op |-> "makedirs"]
Save(name) == [op |-> "save", name |-> name]
ResizeSave(px, name) == [op |-> "resize_save", px |-> px, name |-> name]

\* for size_variant in sizes: resized = img.resize(...); resized.save(<base>_<size>.png)
SizeLoop(base, sizes) ==
    [i \in 1..Len(sizes) |-> ResizeSave(sizes[i], FileName(base, sizes[i]))]

SizesLarge == <<512, 256, 128, 64, 32, 16>>
SizesSmall == <<256, 128, 64, 32, 16>>

\* The size list each script's loop runs over.
Sizes(s) == IF s \in {Final, Full} THEN SizesLarge ELSE SizesSmall

ProgFinalAlias256 ==
    << New(1024), Shapes(6),
       FontList(<<Monaco, Menlo, Courier>>, <<600, 500>>),
       Text("font", 1), Text("font_small", 105), Shapes(3),
       MakeDirs, Save(FileName("icon", 1024)) >>
    \o SizeLoop("icon", SizesLarge)
    \o << ResizeSave(256, IconPng) >>

ProgFinal ==
    << New(1024), Shapes(6),
       FontList(<<Monaco, Menlo, Courier>>, <<600, 500>>),
       Text("font", 1), Text("font_small", 105), Shapes(3),
       MakeDirs, Save(FileName("icon", 1024)) >>
    \o SizeLoop("icon", SizesLarge)
    \o << ResizeSave(512, IconPng) >>

ProgFull ==
    << New(1024),
       FontList(<<Monaco, Menlo, Courier>>, <<400>>),
       Text("font", 9),
       MakeDirs, Save(FileName("icon", 1024)) >>
    \o SizeLoop("icon", SizesLarge)
    \o << ResizeSave(512, IconPng) >>

ProgIcon ==
    << New(512), Shapes(10),
       FontTry("font", Monaco, 28, "load_default"),
       Text("font", 2), Shapes(10),
       FontTry("title_font", Helvetica, 42, "font"),
       Text("title_font", 1),
       Save(IconPng) >>
    \o SizeLoop("icon", SizesSmall)

ProgModern ==
    << New(512), Shapes(6),
       FontList(<<Monaco, Menlo, Courier>>, <<220>>),
       Text("font", 6), Shapes(3),
       MakeDirs, Save(IconPng) >>
    \o SizeLoop("icon", SizesSmall)

ProgOverviewNoIconPng ==
    << New(512), Shapes(135),
       MakeDirs, Save(FileName("overview_icon", 0)) >>
    \o SizeLoop("overview_icon", SizesSmall)

ProgOverview ==
    << New(512), Shapes(135),
       MakeDirs, Save(FileName("overview_icon", 0)) >>
    \o SizeLoop("overview_icon", SizesSmall)
    \o << Save(IconPng) >>

ProgTerminal ==
    << New(512), Shapes(18),
       FontList(<<Monaco, Menlo, Courier, CourierNew>>, <<80>>),
       Text("font", 4), Shapes(6),
       MakeDirs, Save(IconPng) >>
    \o SizeLoop("icon", SizesSmall)

Program(s) ==
    CASE s = Final -> ProgFinal
      [] s = Full -> ProgFull
      [] s = Icon -> ProgIcon
      [] s = Modern -> ProgModern
      [] s = Overview -> ProgOverview
      [] s = Terminal -> ProgTerminal

SaveOps == {"save", "resize_save"}

\* The file names a script saves, in statement order.
RECURSIVE OutputNames(_)
OutputNames(prog) ==
    IF prog = <<>> THEN <<>>
    ELSE (IF Head(prog).op \in SaveOps THEN <<Head(prog).name>> ELSE <<>>)
         \o OutputNames(Tail(prog))

Range(f) == { f[i] : i \in DOMAIN f }

AllNames == UNION { Range(OutputNames(Program(s))) : s \in Scripts }

\* What one script probes: its font paths and the sizes it loads them at.
ProbedPaths(s) ==
    UNION { IF st.op = "fontlist" THEN Range(st.paths)
            ELSE IF st.op = "fonttry" THEN {st.path} ELSE {} : st \in Range(Program(s)) }

ProbedLoads(s) ==
    UNION { IF st.op = "fontlist" THEN Range(st.paths) \X Range(st.sizes)
            ELSE IF st.op = "fonttry" THEN {<<st.path, st.size>>} ELSE {} :
            st \in Range(Program(s)) }

AllLoads == UNION { ProbedLoads(s) : s \in Scripts }

(***************************************************************************)
(* One run of a script: a fresh process that executes Program(script) from  *)
(* its first statement; an exception no statement handles ends it.          *)
(***************************************************************************)
CurStmt == Program(script)[pc]

At(op) == status = "running" /\ pc <= Len(Program(script)) /\ CurStmt.op = op

FontVar(var) ==
    CASE var = "font" -> font
      [] var = "font_small" -> font_small
      [] var = "title_font" -> title_font

\* os.path.exists(font_path)
Exists(path) == path \in files

Launch(s) ==
    /\ status \in {"idle", "done", "failed"}
    /\ script' = s
    /\ status' = "running"
    /\ pc' = 1
    /\ img' = NoImage
    /\ resized' = NoImage
    /\ font' = None
    /\ font_small' = None
    /\ title_font' = None
    /\ fidx' = 0
    /\ written' = <<>>
    /\ startFs' = fs
    /\ prev' = [script |-> script, status |-> status]
    /\ UNCHANGED <<assets, fs, envvars, rrvars>>

\* img = Image.new('RGBA', (size, size), ...)
NewImage ==
    /\ At("new")
    /\ img' = NewCanvas(script, CurStmt.size)
    /\ pc' = pc + 1
    /\ UNCHANGED <<assets, fs, script, status, resized, written, startFs, prev>>
    /\ UNCHANGED <<envvars, fontvars, rrvars>>

\* draw.rectangle / pieslice / ellipse / arc / line and rounded_rectangle calls
DrawShapes ==
    /\ At("shapes")
    /\ img' = [img EXCEPT !.ops = @ + CurStmt.n]
    /\ pc' = pc + 1
    /\ UNCHANGED <<assets, fs, script, status, resized, written, startFs, prev>>
    /\ UNCHANGED <<envvars, fontvars, rrvars>>

\* draw.text(..., font=<var>)
DrawText ==
    /\ At("text")
    /\ img' = [img EXCEPT !.ops = @ + CurStmt.n,
                          !.faces = Append(@, Face(FontVar(CurStmt.var)))]
    /\ pc' = pc + 1
    /\ UNCHANGED <<assets, fs, script, status, resized, written, startFs, prev>>
    /\ UNCHANGED <<envvars, fontvars, rrvars>>

\* font = None (and font_small = None), before the loop over font_paths
FontListBegin ==
    /\ At("fontlist")
    /\ fidx = 0
    /\ font' = None
    /\ font_small' = None
    /\ fidx' = 1
    /\ UNCHANGED <<title_font, runvars, envvars, rrvars>>

\* One iteration of `for font_path in font_paths`: skip a missing file; load the
\* font (both sizes in create_final_icon.py) and break; on an exception continue
\* with what was assigned before it.
ProbeResult(path, sizes) ==
    IF ~Exists(path) THEN [font |-> font, font_small |-> font_small, brk |-> FALSE]
    ELSE IF ~TrueTypeLoads(path, sizes[1])
    THEN [font |-> font, font_small |-> font_small, brk |-> FALSE]
    ELSE IF Len(sizes) = 1
    THEN [font |-> TrueType(path, sizes[1]), font_small |-> font_small, brk |-> TRUE]
    ELSE IF ~TrueTypeLoads(path, sizes[2])
    THEN [font |-> TrueType(path, sizes[1]), font_small |-> font_small, brk |-> FALSE]
    ELSE [font |-> TrueType(path, sizes[1]), font_small |-> TrueType(path, sizes[2]),
          brk |-> TRUE]

FontProbe ==
    /\ At("fontlist")
    /\ fidx \in 1..Len(CurStmt.paths)
    /\ LET res == ProbeResult(CurStmt.paths[fidx], CurStmt.sizes)
       IN  /\ font' = res.font
           /\ font_small' = res.font_small
           /\ fidx' = IF res.brk THEN Len(CurStmt.paths) + 1 ELSE fidx + 1
    /\ UNCHANGED <<title_font, runvars, envvars, rrvars>>

\* if not font: font = ImageFont.load_default() (and font_small = font)
FontListEnd ==
    /\ At("fontlist")
    /\ fidx = Len(CurStmt.paths) + 1
    /\ font' = IF font = None THEN DefaultFont ELSE font
    /\ font_small' = IF font = None /\ Len(CurStmt.sizes) = 2 THEN DefaultFont
                     ELSE font_small
    /\ fidx' = 0
    /\ pc' = pc + 1
    /\ UNCHANGED <<title_font, envvars, rrvars>>
    /\ UNCHANGED <<assets, fs, script, status, img, resized, written, startFs, prev>>

\* try: <var> = ImageFont.truetype(path, size)  except: <var> = <fallback>
FontTryStep ==
    /\ At("fonttry")
    /\ LET val == IF TrueTypeLoads(CurStmt.path, CurStmt.size)
                  THEN TrueType(CurStmt.path, CurStmt.size)
                  ELSE IF CurStmt.fallback = "font" THEN font ELSE DefaultFont
       IN  /\ font' = IF CurStmt.var = "font" THEN val ELSE font
           /\ title_font' = IF CurStmt.var = "title_font" THEN val ELSE title_font
    /\ pc' = pc + 1
    /\ UNCHANGED <<font_small, fidx, envvars, rrvars>>
    /\ UNCHANGED <<assets, fs, script, status, img, resized, written, startFs, prev>>

\* os.makedirs('assets', exist_ok=True)
MakeDirsStep ==
    /\ At("makedirs")
    /\ assets' = TRUE
    /\ pc' = pc + 1
    /\ UNCHANGED <<fs, script, status, img, resized, written, startFs, prev>>
    /\ UNCHANGED <<envvars, fontvars, rrvars>>

\* img.resize((size_variant, size_variant), Image.Resampling.LANCZOS)
ResampledFromLast(px) == Resize(IF resized = NoImage THEN img ELSE resized, px)

Resampled(px) == Resize(img, px)

\* img.save('assets/<name>'): the file is created or overwritten.
SaveImage ==
    /\ At("save")
    /\ assets
    /\ fs' = [fs EXCEPT ![CurStmt.name] = img]
    /\ written' = Append(written, CurStmt.name)
    /\ pc' = pc + 1
    /\ UNCHANGED <<assets, script, status, img, resized, startFs, prev>>
    /\ UNCHANGED <<envvars, fontvars, rrvars>>

\* resized = img.resize(...); resized.save('assets/<name>')
ResizeAndSave ==
    /\ At("resize_save")
    /\ assets
    /\ resized' = Resampled(CurStmt.px)
    /\ fs' = [fs EXCEPT ![CurStmt.name] = resized']
    /\ written' = Append(written, CurStmt.name)
    /\ pc' = pc + 1
    /\ UNCHANGED <<assets, script, status, img, startFs, prev>>
    /\ UNCHANGED <<envvars, fontvars, rrvars>>

\* A save that raises: FileNotFoundError when assets/ does not exist, OSError
\* when the file system refuses the write.  No statement handles it.
OnSaveErrorSwallowed == [status |-> "running", pc |-> pc + 1]

OnSaveError == [status |-> "failed", pc |-> pc]

SaveRaises ==
    /\ At("save") \/ At("resize_save")
    /\ ~assets \/ disk = "unreliable"
    /\ resized' = IF CurStmt.op = "resize_save" THEN Resampled(CurStmt.px) ELSE resized
    /\ status' = OnSaveError.status
    /\ pc' = OnSaveError.pc
    /\ UNCHANGED <<assets, fs, script, img, written, startFs, prev>>
    /\ UNCHANGED <<envvars, fontvars, rrvars>>

\* The last statement is done: the process exits normally.
Exit ==
    /\ status = "running"
    /\ pc = Len(Program(script)) + 1
    /\ status' = "done"
    /\ UNCHANGED <<assets, fs, script, pc, img, resized, written, startFs, prev>>
    /\ UNCHANGED <<envvars, fontvars, rrvars>>

Statement ==
    \/ NewImage
    \/ DrawShapes
    \/ DrawText
    \/ FontListBegin
    \/ FontProbe
    \/ FontListEnd
    \/ FontTryStep
    \/ MakeDirsStep
    \/ SaveImage
    \/ ResizeAndSave
    \/ SaveRaises
    \/ Exit

IdleProcess ==
    /\ script = "none"
    /\ status = "idle"
    /\ pc = 0
    /\ img = NoImage
    /\ resized = NoImage
    /\ font = None
    /\ font_small = None
    /\ title_font = None
    /\ fidx = 0
    /\ written = <<>>
    /\ prev = [script |-> "none", status |-> "idle"]

EmptyAssets ==
    /\ assets \in BOOLEAN
    /\ fs = [n \in AllNames |-> NoImage]
    /\ startFs = fs

RRUnused ==
    /\ xy = <<0, 0, 0, 0>>
    /\ radius = 0
    /\ painted = {}
    /\ rstep = 0

\* A loadable font file loads at every size.
LoadsOf(good) == { l \in AllLoads : l[1] \in good }

Init ==
    /\ files \in { S \in SUBSET FontPaths : Cardinality(S) <= MaxInstalled }
    /\ ttf \in { LoadsOf(good) : good \in SUBSET files }
    /\ disk = "ok"
    /\ EmptyAssets
    /\ IdleProcess
    /\ RRUnused

Next == (\E s \in Scripts : Launch(s)) \/ Statement

Spec == Init /\ [][Next]_vars

\* One run of any script, under every state of the font files a script probes
\* (each file missing or present, each load working or not), on a file system
\* that accepts every write or may refuse any.
InitRun ==
    /\ \E s \in Scripts :
        /\ files \in SUBSET ProbedPaths(s)
        /\ ttf \in SUBSET { l \in ProbedLoads(s) : l[1] \in files }
    /\ disk \in {"ok", "unreliable"}
    /\ EmptyAssets
    /\ IdleProcess
    /\ RRUnused

LaunchOnce == status = "idle" /\ \E s \in Scripts : Launch(s)

NextRun == LaunchOnce \/ Statement

SpecRun == InitRun /\ [][NextRun]_vars

InitRR ==
    /\ xy \in Boxes
    /\ radius \in { r \in 0..MaxSide : ValidRadius(xy, r) }
    /\ painted = {}
    /\ rstep = 0
    /\ files = {}
    /\ ttf = {}
    /\ disk = "ok"
    /\ assets = FALSE
    /\ fs = [n \in AllNames |-> NoImage]
    /\ startFs = fs
    /\ IdleProcess

BandHorizontal ==
    /\ rstep = 0
    /\ painted' = painted \cup RoundedRectangleCall(xy, radius, 1)
    /\ rstep' = 1
    /\ UNCHANGED <<xy, radius, envvars, fontvars, runvars>>

BandVertical ==
    /\ rstep = 1
    /\ painted' = painted \cup RoundedRectangleCall(xy, radius, 2)
    /\ rstep' = 2
    /\ UNCHANGED <<xy, radius, envvars, fontvars, runvars>>

CornerSlice ==
    /\ rstep \in 2..5
    /\ painted' = painted \cup RoundedRectangleCall(xy, radius, rstep + 1)
    /\ rstep' = rstep + 1
    /\ UNCHANGED <<xy, radius, envvars, fontvars, runvars>>

NextRR == BandHorizontal \/ BandVertical \/ CornerSlice

SpecRR == InitRR /\ [][NextRR]_vars

(***************************************************************************)
(* Properties of the runs.                                                  *)
(***************************************************************************)
Outputs(s) == OutputNames(Program(s))

Started == status # "idle"

\* f holds the canvas as it is now, saved as it is or resampled once from it.
FromMaster(f) ==
    /\ f.art = img.art
    /\ f.ops = img.ops
    /\ f.faces = img.faces
    /\ \/ f.lineage = <<img.w>> /\ f.w = img.w /\ f.h = img.h
       \/ f.lineage = <<img.w, f.w>>

\* C2: the canvas is square; every file the run has saved holds the canvas as it
\* is at the end (no draw call came after a save), saved directly or resampled
\* once from it, never from another variant; none is larger than the canvas,
\* and a finished run has saved the canvas itself (its largest export).
C2_VariantsFromFinishedMaster ==
    Started =>
        /\ img # NoImage => img.w = img.h
        /\ \A i \in 1..Len(written) :
              FromMaster(fs[written[i]]) /\ fs[written[i]].w <= img.w
        /\ status = "done" => \E i \in 1..Len(written) : fs[written[i]] = img

C2_Witness ==
    /\ status = "done"
    /\ script = Final
    /\ fs[FileName("icon", 1024)] = img
    /\ fs[FileName("icon", 16)].lineage = <<1024, 16>>
    /\ img.ops > 0

\* C3: whenever a script is about to write a file, assets/ exists (the script
\* has created it if it was absent).
C3_DirectoryExistsAtEveryWrite ==
    (At("save") \/ At("resize_save")) => assets

\* C4 (as stated): a run that ends has written all of its files or none.
C4_AllOrNothing ==
    /\ status = "failed" => written = <<>>
    /\ status = "done" => written = Outputs(script)

\* C4 (amended): the files a run has written are the first saves of the script,
\* in order; a run that ends normally has written all of them; a run that a
\* failing write ends has written those before the failing save, all files
\* after it are as the run found them, and it stopped at that save.
C4_PrefixWritten ==
    Started =>
        /\ Len(written) <= Len(Outputs(script))
        /\ written = SubSeq(Outputs(script), 1, Len(written))
        /\ \A n \in AllNames \ Range(written) : fs[n] = startFs[n]
        /\ \A n \in Range(written) : fs[n] # NoImage
        /\ status = "done" => written = Outputs(script)
        /\ status = "failed" =>
              /\ Len(written) < Len(Outputs(script))
              /\ CurStmt.op \in SaveOps
              /\ CurStmt.name = Outputs(script)[Len(written) + 1]

C4_Witness ==
    /\ status = "failed"
    /\ Len(written) > 0
    /\ Len(written) < Len(Outputs(script))
    /\ assets

PerSizeNames(s) ==
    { FileName(IF s = Overview THEN "overview_icon" ELSE "icon", Sizes(s)[i]) :
        i \in 1..Len(Sizes(s)) }

\* The file that holds the canvas itself when it is not icon.png.
MasterNames(s) ==
    IF s \in {Final, Full} THEN {FileName("icon", 1024)}
    ELSE IF s = Overview THEN {FileName("overview_icon", 0)} ELSE {}

\* C5 (as stated): a complete run of create_final_icon.py or create_full_icon.py
\* has written seven files: one per listed size and icon.png.
C5_SevenFiles ==
    (status = "done" /\ script \in {Final, Full}) =>
        /\ Cardinality(Range(written)) = Len(Sizes(script)) + 1
        /\ Range(written) = PerSizeNames(script) \cup {IconPng}

\* C5 (amended): a complete run has written one file per size of its list, each
\* square with that edge length, icon.png, and for the 1024 scripts and the
\* overview script one more file, the canvas itself (icon_1024.png,
\* overview_icon.png): eight files for create_final_icon.py and
\* create_full_icon.py, whose icon.png equals their icon_512.png.
C5_OnePerSizePlusAliasPlusMaster ==
    status = "done" =>
        /\ Range(written) = PerSizeNames(script) \cup {IconPng} \cup MasterNames(script)
        /\ Len(written) = Len(Sizes(script)) + 1 + Cardinality(MasterNames(script))
        /\ \A n \in PerSizeNames(script) : fs[n].w = n.suffix /\ fs[n].h = n.suffix
        /\ \A n \in MasterNames(script) : fs[n] = img
        /\ script \in {Final, Full} =>
              /\ Len(written) = 8
              /\ fs[IconPng] = fs[FileName("icon", 512)]
              /\ fs[IconPng].w = 512

C5_Witness ==
    /\ status = "done"
    /\ script = Full
    /\ Len(written) = 8
    /\ fs[IconPng] = fs[FileName("icon", 512)]
    /\ fs[FileName("icon", 1024)].w = 1024

\* The font_paths loop of a script, if it has one, and where it stands.
FontListAt(s) == { i \in 1..Len(Program(s)) : Program(s)[i].op = "fontlist" }

Resolved == Started /\ FontListAt(script) # {} /\ \A i \in FontListAt(script) : pc > i

ListStmt == Program(script)[CHOOSE i \in FontListAt(script) : TRUE]

FirstOf(S) == CHOOSE i \in S : \A j \in S : i <= j
LastOf(S) == CHOOSE i \in S : \A j \in S : j <= i

\* C6 (as stated): the font is that of the first listed path that exists, and
\* the default font exactly when no listed path exists.
C6_FirstExistingPath ==
    Resolved =>
        LET paths == ListStmt.paths
            there == { i \in 1..Len(paths) : paths[i] \in files }
        IN  /\ there # {} => font.path = paths[FirstOf(there)]
            /\ font = DefaultFont <=> there = {}

\* C6 (amended): the font is that of the first listed path that exists and
\* loads, a path that exists but does not load being skipped; it is the default
\* font exactly when no listed path exists and loads.  In create_final_icon.py,
\* which loads two sizes per path, the two fonts are those of the first path at
\* which both load; when there is none, font_small stays unset (text is then
\* drawn with the default font) and font is left at the last path whose first
\* size loaded, or both are the default font when no first size loaded.  No
\* font statement ends the run: a run fails only at a save.
C6_FirstLoadablePath ==
    /\ Resolved =>
        LET paths == ListStmt.paths
            sizes == ListStmt.sizes
            big == { i \in 1..Len(paths) :
                       paths[i] \in files /\ <<paths[i], sizes[1]>> \in ttf }
            both == { i \in big : \A k \in 1..Len(sizes) : <<paths[i], sizes[k]>> \in ttf }
        IN  /\ both # {} =>
                /\ font = [path |-> paths[FirstOf(both)], size |-> sizes[1]]
                /\ Len(sizes) = 2 =>
                      font_small = [path |-> paths[FirstOf(both)], size |-> sizes[2]]
            /\ (both = {} /\ big # {}) =>
                /\ font = [path |-> paths[LastOf(big)], size |-> sizes[1]]
                /\ font_small = None
            /\ big = {} =>
                /\ font = DefaultFont
                /\ Len(sizes) = 2 => font_small = DefaultFont
            /\ font = DefaultFont <=> big = {}
    /\ status = "failed" => CurStmt.op \in SaveOps

\* The first existing path does not load, and a later path is selected.
C6_Witness ==
    /\ Resolved
    /\ status = "done"
    /\ LET paths == ListStmt.paths
           there == { i \in 1..Len(paths) : paths[i] \in files }
       IN  /\ there # {}
           /\ font # DefaultFont
           /\ font.path # paths[FirstOf(there)]
           /\ img.faces[1] = font

\* C7: a complete run of a script that directly follows a complete run of the
\* same script (the font files being the same) leaves assets/ exactly as it
\* found it: the same files, each with the same content.
C7_SecondRunChangesNothing ==
    (status = "done" /\ prev = [script |-> script, status |-> "done"]) => fs = startFs

C7_Witness ==
    /\ status = "done"
    /\ prev = [script |-> script, status |-> "done"]
    /\ script = Modern
    /\ fs = startFs
    /\ fs[IconPng].art = Modern
    /\ fs[FileName("icon", 1024)].art = Final

\* C8: every file in assets/ is square, with the edge length its name states;
\* no file a run has written is larger than the run's canvas.
C8_SquareOfTheNamedSize ==
    /\ \A n \in AllNames :
          fs[n] # NoImage =>
              /\ fs[n].w = fs[n].h
              /\ n.suffix # 0 => fs[n].w = n.suffix
    /\ \A i \in 1..Len(written) : fs[written[i]].w <= img.w /\ fs[written[i]].h <= img.h

C8_Witness ==
    /\ status = "done"
    /\ script = Icon
    /\ img.w = 512
    /\ fs[FileName("icon", 256)].w = 256
    /\ fs[FileName("icon", 256)].h = 256
    /\ fs[FileName("icon", 16)].lineage = <<512, 16>>

\* C10: when a run completes, icon.png holds that script's image (its canvas,
\* or for the 1024 scripts its 512 resampling), whichever scripts ran before.
C10_IconPngIsTheLastScripts ==
    status = "done" =>
        /\ IconPng \in Range(written)
        /\ fs[IconPng].art = script
        /\ FromMaster(fs[IconPng])

C10_Witness ==
    /\ status = "done"
    /\ prev.status = "done"
    /\ prev.script # script
    /\ startFs[IconPng].art = prev.script
    /\ fs[IconPng].art = script

\* Two images come from the same master: the same script drew it, with the
\* same draw calls and fonts, on a canvas of the same size.
SameMaster(f, g) ==
    /\ f.art = g.art
    /\ f.ops = g.ops
    /\ f.faces = g.faces
    /\ f.lineage # <<>> /\ g.lineage # <<>> /\ f.lineage[1] = g.lineage[1]

IconSizeNames == { n \in AllNames : n.base = "icon" /\ n.suffix # 0 }

\* C11: after a sequence of complete runs (with a reliable disk a run fails
\* only for want of assets/, and then writes nothing), every icon_<size>.png
\* that exists comes from the same master as icon.png: the icon set is never a
\* mix of two scripts' artwork.
C11_IconSetFromOneMaster ==
    (status = "done" /\ prev.status \in {"idle", "done"}) =>
        \A n \in IconSizeNames :
            fs[n] # NoImage => SameMaster(fs[n], fs[IconPng])

(***************************************************************************)
(* The ideal rounded rectangle on the pixel grid: the box, less the pixels  *)
(* of each r x r corner square farther than r from the inset corner point.  *)
(***************************************************************************)
IdealRegion(box, r) ==
    { p \in (box[1]..box[3]) \X (box[2]..box[4]) :
        LET dx == IF p[1] < box[1] + r THEN box[1] + r - p[1]
                  ELSE IF p[1] > box[3] - r THEN p[1] - (box[3] - r) ELSE 0
            dy == IF p[2] < box[2] + r THEN box[2] + r - p[2]
                  ELSE IF p[2] > box[4] - r THEN p[2] - (box[4] - r) ELSE 0
        IN  (dx > 0 /\ dy > 0) => dx * dx + dy * dy <= r * r }

Near(p, q) == Abs(p[1] - q[1]) <= 1 /\ Abs(p[2] - q[2]) <= 1

RRDone == rstep = 6

\* C1: for every valid box and radius, once the six draw calls are made every
\* pixel of the ideal rounded rectangle is painted (no gap between the bands and
\* the slices) and every painted pixel is an ideal pixel or touches one (at most
\* one pixel outside, along the corner arcs).
C1_RoundedRectangleWithinOnePixel ==
    RRDone =>
        /\ IdealRegion(xy, radius) \subseteq painted
        /\ \A p \in painted : \E q \in IdealRegion(xy, radius) : Near(p, q)

\* A radius large enough for the arc to leave the ideal circle's rows (r = 6 is
\* the first radius whose top row is two pixels wider than the ideal one).
C1_Witness ==
    /\ RRDone
    /\ radius >= 6
    /\ painted # IdealRegion(xy, radius)
    /\ painted # (xy[1]..xy[3]) \X (xy[2]..xy[4])

\* C9: with radius 0 the call paints exactly the pixels of the plain rectangle
\* (x0, y0)-(x1, y1); the band painted first already covers it, and no later
\* call adds a pixel.
C9_ZeroRadiusIsPlainRectangle ==
    (radius = 0 /\ rstep >= 1) => painted = (xy[1]..xy[3]) \X (xy[2]..xy[4])

C9_Witness ==
    /\ RRDone
    /\ radius = 0
    /\ xy[3] > xy[1]
    /\ xy[4] > xy[2]
    /\ painted = (xy[1]..xy[3]) \X (xy[2]..xy[4])

====
